---- MODULE Spec2Model ----
(***************************************************************************)
(* Model of the Socket.IO gateway of the HTPI customer portal (src/app.py):*)
(* the connected_clients registry, the Socket.IO rooms, the client event   *)
(* handlers and the NATS response callbacks.                               *)
(*                                                                         *)
(* Every handler is one atomic action.  A bus round trip made inside a     *)
(* handler (nc.request with timeout=5) is part of that action; its outcome *)
(* (a reply, or the exception raised on timeout) is an input of the action.*)
(***************************************************************************)
EXTENDS Naturals, Sequences, FiniteSets

\* Session ids handed out by Socket.IO (request.sid); each names one connection.
Sids == {"s1", "s2"}
TenantIds == {"T1", "T2"}
UserIds == {"user-001", "user-002"}
Tokens == {"tok"}
RequestIds == {"r1"}
Emails == {"demo@htpi.com", "other@htpi.com"}
Passwords == {"demo123", "wrong"}

\* The number of client events and bus messages a run handles.
MaxEvents == 7

\* Python's None, and a key that is missing from a dict.
None == "None"
Absent == "absent"

VARIABLES
    sockets,            \* Socket.IO transport: sid -> "fresh" | "open" | "closed"
    connected_clients,  \* the registry dict: a function on the registered sids
    rooms,              \* Socket.IO rooms: sid -> set of room names it has joined
    ncConnected,        \* nc and nc.is_connected
    out,                \* the emit calls of the last step, in order
    last,               \* the last step: its handler, connection and request id
    pending,            \* history: login / tenant-list requests not yet answered by the bus
    resolved,           \* history: the request ids a bus reply has answered
    events,             \* history: the number of events handled so far
    writing             \* the handle_auth_response call that is under way, if any,
                        \* and the statement it is about to run

vars == <<sockets, connected_clients, rooms, ncConnected, out, last, pending, resolved,
          events, writing>>

----------------------------------------------------------------------------
\* Room names: f"user:{id}", f"tenant:{t}", f"dashboard:{t}", f"patients:{t}".
UserRoom(u) == <<"user", u>>
TenantRoom(t) == <<"tenant", t>>
DashboardRoom(t) == <<"dashboard", t>>
PatientsRoom(t) == <<"patients", t>>

\* The fresh registry entry written by handle_connect.
NewClient == [authenticated |-> FALSE, user |-> Absent, token |-> Absent,
              tenant_id |-> Absent]

OpenSids == {s \in Sids : sockets[s] = "open"}

\* The connections an emit to a named room reaches.
MembersOf(room) == {s \in OpenSids : room \in rooms[s]}

\* socketio.emit(..., room=client_id): every connection owns the room named by
\* its sid while it is connected; room=None addresses every connected client.
ToSid(client_id) ==
    IF client_id = None THEN OpenSids
    ELSE IF client_id \in OpenSids THEN {client_id} ELSE {}

\* One emit call: the event, the connections it is delivered to, its payload.
Ev(ev, to) == [ev |-> ev, to |-> to, success |-> "-", error |-> "-",
               user |-> "-", token |-> "-", tenant |-> "-"]

\* join_room(room) inside the handler of connection s.
JoinRoom(r, s, room) == [r EXCEPT ![s] = @ \cup {room}]

Step(op, s, rid) == [op |-> op, sid |-> s, rid |-> rid]

----------------------------------------------------------------------------
Init ==
    /\ sockets = [s \in Sids |-> "fresh"]
    /\ connected_clients = << >>
    /\ rooms = [s \in Sids |-> {}]
    /\ ncConnected = TRUE
    /\ out = << >>
    /\ last = Step("init", None, None)
    /\ pending = {}
    /\ resolved = {}
    /\ events = 0
    /\ writing = {}

\* Every step counts as one event.
Tick == events < MaxEvents /\ events' = events + 1

\* @socketio.on('connect')
HandleConnect(s) ==
    /\ sockets[s] = "fresh"
    /\ Tick
    /\ UNCHANGED writing
    /\ sockets' = [sockets EXCEPT ![s] = "open"]
    /\ connected_clients' =
         [x \in DOMAIN connected_clients \cup {s} |->
             IF x = s THEN NewClient ELSE connected_clients[x]]
    /\ out' = << [Ev("connected", {s}) EXCEPT !.success = "-"] >>
    /\ last' = Step("connect", s, None)
    /\ UNCHANGED <<rooms, ncConnected, pending, resolved>>

\* A disconnect handler that forgets the registry entry.
DeleteClientKeepsEntry(s) == connected_clients

\* A disconnect handler that empties the registry.
DeleteClientClearsAll(s) == << >>

\* "if client_id in connected_clients: del connected_clients[client_id]"
DeleteClient(s) ==
    IF s \in DOMAIN connected_clients
    THEN [x \in DOMAIN connected_clients \ {s} |-> connected_clients[x]]
    ELSE connected_clients

\* @socketio.on('disconnect'): the registry entry is deleted; Socket.IO itself
\* takes the closed sid out of every room.
HandleDisconnect(s) ==
    /\ sockets[s] = "open"
    /\ Tick
    /\ UNCHANGED writing
    /\ sockets' = [sockets EXCEPT ![s] = "closed"]
    /\ connected_clients' = DeleteClient(s)
    /\ rooms' = [rooms EXCEPT ![s] = {}]
    /\ out' = << >>
    /\ last' = Step("disconnect", s, None)
    /\ pending' = {p \in pending : p.sid # s}
    /\ UNCHANGED <<ncConnected, resolved>>

\* handle_disconnect run for a sid that is not connected: a second disconnect,
\* or a disconnect for an id that never connected.
HandleDisconnectAbsent(s) ==
    /\ sockets[s] # "open"
    /\ Tick
    /\ UNCHANGED writing
    /\ connected_clients' = DeleteClient(s)
    /\ rooms' = [rooms EXCEPT ![s] = {}]
    /\ out' = << >>
    /\ last' = Step("disconnect", s, None)
    /\ pending' = {p \in pending : p.sid # s}
    /\ UNCHANGED <<sockets, ncConnected, resolved>>

----------------------------------------------------------------------------
\* The keys of NATS_SUBJECTS.
NATS_SUBJECTS ==
    {"auth.login", "auth.verify", "tenant.list.for.user", "tenant.verify.access",
     "patient.list", "patient.get", "dashboard.get.stats", "dashboard.get.activity",
     "insurance.list.for.patient", "claims.list.for.patient", "claims.get"}

\* A publish_to_nats that hands back a reply of the auth service, one that says
\* success and carries no user.
publish_to_natsReplies(subject_key, data) ==
    IF ~ncConnected THEN {}
    ELSE {[success |-> TRUE, user |-> None, token |-> None, error |-> "-"]}

\* publish_to_nats: the reply it returns, as a set: {} is None.  Every path of the
\* function returns None ("Sync mode limitation").
publish_to_nats(subject_key, data) ==
    IF ~ncConnected THEN {}
    ELSE IF subject_key \notin NATS_SUBJECTS THEN {}
    ELSE {}

\* publish_to_nats got as far as handing the message to the bus.
Published(subject_key) == ncConnected /\ subject_key \in NATS_SUBJECTS

\* A request handed to the bus; "authenticated" records whether its sender was
\* authenticated when it sent it.
Request(s, kind, rid) ==
    [sid |-> s, kind |-> kind, rid |-> rid,
     authenticated |-> s \in DOMAIN connected_clients /\ connected_clients[s].authenticated]

\* A request of this connection, kind and request id is outstanding.
Outstanding(s, kind, rid) ==
    \E p \in pending : p.sid = s /\ p.kind = kind /\ p.rid = rid

\* The requests a bus reply of this kind, naming this client and request id, answers.
Answers(kind, client_id, rid) ==
    {p \in pending : p.kind = kind /\ p.rid = rid /\ (rid = None => p.sid = client_id)}

LoginFailure(s, error) ==
    [Ev("auth:login:response", {s}) EXCEPT !.success = "false", !.error = error]

LoginSuccess(to, user, token) ==
    [Ev("auth:login:response", to) EXCEPT !.success = "true", !.user = user,
                                         !.token = token]

\* An update that stores the user and forgets the token.
AuthenticateDropsToken(clients, s, user, token) ==
    [clients EXCEPT ![s].authenticated = TRUE, ![s].user = user]

Authenticate(clients, s, user, token) ==
    [clients EXCEPT ![s].authenticated = TRUE, ![s].user = user, ![s].token = token]

\* The body of handle_login for the result publish_to_nats returned.
LoginEffect(s, result) ==
    IF result = {}
    THEN [clients |-> connected_clients, rooms |-> rooms,
          out |-> << LoginFailure(s, "Authentication service unavailable") >>]
    ELSE LET r == CHOOSE x \in result : TRUE IN
         IF ~r.success
         THEN [clients |-> connected_clients, rooms |-> rooms,
               out |-> << LoginFailure(s, r.error) >>]
         ELSE IF s \notin DOMAIN connected_clients
         THEN [clients |-> connected_clients, rooms |-> rooms,
               out |-> << LoginFailure(s, "Authentication failed") >>]
         ELSE IF r.user \notin UserIds
         THEN [clients |-> Authenticate(connected_clients, s, r.user, r.token),
               rooms |-> rooms,
               out |-> << LoginFailure(s, "Authentication failed") >>]
         ELSE [clients |-> Authenticate(connected_clients, s, r.user, r.token),
               rooms |-> JoinRoom(rooms, s, UserRoom(r.user)),
               out |-> << LoginSuccess({s}, r.user, r.token) >>]

\* What a client sends with auth:login.
LoginData == [email : Emails, password : Passwords, requestId : RequestIds]

\* "auth_message = {'email': email, 'password': password, ..., 'clientId': ...}"
AuthMessage(s, data) ==
    [email |-> data.email, password |-> data.password, clientId |-> s,
     requestId |-> data.requestId]

\* @socketio.on('auth:login')
HandleLogin(s, data) ==
    /\ sockets[s] = "open"
    /\ Tick
    /\ UNCHANGED writing
    /\ LET eff == LoginEffect(s, publish_to_nats("auth.login", AuthMessage(s, data))) IN
         /\ connected_clients' = eff.clients
         /\ rooms' = eff.rooms
         /\ out' = eff.out
    /\ last' = Step("auth:login", s, data.requestId)
    /\ pending' = IF Published("auth.login")
                  THEN pending \cup {Request(s, "auth", data.requestId)} ELSE pending
    /\ resolved' = IF Published("auth.login")
                   THEN resolved \ {data.requestId} ELSE resolved
    /\ UNCHANGED <<sockets, ncConnected>>

\* A handle_login whose thread runs its body after the connection it was sent
\* on has disconnected: the same body, and its emit reaches nobody.
HandleLoginAfterDisconnect(s, data) ==
    /\ sockets[s] = "closed"
    /\ Tick
    /\ UNCHANGED writing
    /\ LET eff == LoginEffect(s, publish_to_nats("auth.login", AuthMessage(s, data))) IN
         /\ connected_clients' = eff.clients
         /\ out' = [i \in 1..Len(eff.out) |->
                      [eff.out[i] EXCEPT !.to = eff.out[i].to \cap OpenSids]]
    /\ last' = Step("auth:login:late", s, data.requestId)
    /\ pending' = IF Published("auth.login")
                  THEN pending \cup {Request(s, "auth", data.requestId)} ELSE pending
    /\ UNCHANGED <<sockets, rooms, ncConnected, resolved>>

\* "if not client or not client.get('authenticated')"
NotAuthenticated(s) ==
    \/ s \notin DOMAIN connected_clients
    \/ ~connected_clients[s].authenticated

NotAuthenticatedError(s) ==
    [Ev("error", {s}) EXCEPT !.error = "Not authenticated"]

\* client['user']['id'] raises when the stored user is None or missing.
HasUser(s) == connected_clients[s].user \in UserIds

\* @socketio.on('user:tenants:list')
HandleListTenants(s) ==
    /\ sockets[s] = "open"
    /\ Tick
    /\ UNCHANGED writing
    /\ out' =
         IF NotAuthenticated(s) THEN << NotAuthenticatedError(s) >>
         ELSE IF ~HasUser(s)
         THEN << [Ev("error", {s}) EXCEPT !.error = "Failed to load tenants"] >>
         ELSE IF publish_to_nats("tenant.list.for.user", [clientId |-> s]) # {}
         THEN << Ev("user:tenants:list:response", {s}) >>
         ELSE << [Ev("user:tenants:list:response", {s})
                    EXCEPT !.error = "Service temporarily unavailable"] >>
    /\ last' = Step("user:tenants:list", s, None)
    /\ pending' = IF ~NotAuthenticated(s) /\ HasUser(s) /\ Published("tenant.list.for.user")
                  THEN pending \cup {Request(s, "tenants", None)} ELSE pending
    /\ UNCHANGED <<sockets, connected_clients, rooms, ncConnected, resolved>>

----------------------------------------------------------------------------
\* What "await nc.request(..., timeout=5)" followed by json.loads can come to:
\* a reply, or an exception (timeout, no responders, a malformed body).
VerifyReplies == {"has_access", "denied", "timeout"}
SnapshotReplies == {"ok", "timeout"}
CreateReplies == {"created", "rejected", "timeout"}

SelectFailure(s, error) ==
    [Ev("user:tenant:select:response", {s}) EXCEPT !.success = "false", !.error = error]

\* A handle_select_tenant that joins the room and sets the tenant before it asks
\* the bus.
SelectEffectJoinsFirst(s, tenant_id, reply) ==
    IF NotAuthenticated(s)
    THEN [clients |-> connected_clients, rooms |-> rooms,
          out |-> << NotAuthenticatedError(s) >>]
    ELSE [clients |-> [connected_clients EXCEPT ![s].tenant_id = tenant_id],
          rooms |-> JoinRoom(rooms, s, TenantRoom(tenant_id)),
          out |-> IF ~ncConnected THEN << >>
                  ELSE IF ~HasUser(s) \/ reply = "timeout"
                  THEN << SelectFailure(s, "Failed to select tenant") >>
                  ELSE IF reply = "has_access"
                  THEN << [Ev("user:tenant:select:response", {s})
                             EXCEPT !.success = "true", !.tenant = tenant_id] >>
                  ELSE << SelectFailure(s, "Access denied to this tenant") >>]

\* The body of handle_select_tenant.
SelectEffect(s, tenant_id, reply) ==
    IF NotAuthenticated(s)
    THEN [clients |-> connected_clients, rooms |-> rooms,
          out |-> << NotAuthenticatedError(s) >>]
    ELSE IF ~ncConnected
    THEN [clients |-> connected_clients, rooms |-> rooms, out |-> << >>]
    ELSE IF ~HasUser(s) \/ reply = "timeout"
    THEN [clients |-> connected_clients, rooms |-> rooms,
          out |-> << SelectFailure(s, "Failed to select tenant") >>]
    ELSE IF reply = "has_access"
    THEN [clients |-> [connected_clients EXCEPT ![s].tenant_id = tenant_id],
          rooms |-> JoinRoom(rooms, s, TenantRoom(tenant_id)),
          out |-> << [Ev("user:tenant:select:response", {s})
                        EXCEPT !.success = "true", !.tenant = tenant_id] >>]
    ELSE [clients |-> connected_clients, rooms |-> rooms,
          out |-> << SelectFailure(s, "Access denied to this tenant") >>]

\* @socketio.on('user:tenant:select')
HandleSelectTenant(s, tenant_id, reply) ==
    /\ sockets[s] = "open"
    /\ Tick
    /\ UNCHANGED writing
    /\ LET eff == SelectEffect(s, tenant_id, reply) IN
         /\ connected_clients' = eff.clients
         /\ rooms' = eff.rooms
         /\ out' = eff.out
    /\ last' = Step("user:tenant:select", s, None)
    /\ UNCHANGED <<sockets, ncConnected, pending, resolved>>

\* A subscription that joins the room without looking at the registry.
SubscribeRoomsUnguarded(s, room) == JoinRoom(rooms, s, room)

\* The rooms after a subscribe handler: the room is joined before any bus call.
SubscribeRooms(s, room) ==
    IF NotAuthenticated(s) THEN rooms ELSE JoinRoom(rooms, s, room)

\* The emits of handle_dashboard_subscribe.
DashboardOut(s, tenant_id, stats, activity) ==
    IF NotAuthenticated(s) THEN << NotAuthenticatedError(s) >>
    ELSE IF ~ncConnected THEN << >>
    ELSE IF ~HasUser(s) \/ stats = "timeout"
    THEN << [Ev("error", {s}) EXCEPT !.error = "Failed to load dashboard data"] >>
    ELSE IF activity = "timeout"
    THEN << [Ev("dashboard:stats", {s}) EXCEPT !.tenant = tenant_id],
            [Ev("error", {s}) EXCEPT !.error = "Failed to load dashboard data"] >>
    ELSE << [Ev("dashboard:stats", {s}) EXCEPT !.tenant = tenant_id],
            [Ev("dashboard:activity", {s}) EXCEPT !.tenant = tenant_id] >>

\* @socketio.on('dashboard:subscribe')
HandleDashboardSubscribe(s, tenant_id, stats, activity) ==
    /\ sockets[s] = "open"
    /\ Tick
    /\ UNCHANGED writing
    /\ rooms' = SubscribeRooms(s, DashboardRoom(tenant_id))
    /\ out' = DashboardOut(s, tenant_id, stats, activity)
    /\ last' = Step("dashboard:subscribe", s, None)
    /\ UNCHANGED <<sockets, connected_clients, ncConnected, pending, resolved>>

\* The emits of handle_patients_subscribe.
PatientsOut(s, tenant_id, reply) ==
    IF NotAuthenticated(s) THEN << NotAuthenticatedError(s) >>
    ELSE IF ~ncConnected THEN << >>
    ELSE IF ~HasUser(s) \/ reply = "timeout"
    THEN << [Ev("error", {s}) EXCEPT !.error = "Failed to load patients"] >>
    ELSE << [Ev("patients:list", {s}) EXCEPT !.tenant = tenant_id] >>

\* @socketio.on('patients:subscribe')
HandlePatientsSubscribe(s, tenant_id, reply) ==
    /\ sockets[s] = "open"
    /\ Tick
    /\ UNCHANGED writing
    /\ rooms' = SubscribeRooms(s, PatientsRoom(tenant_id))
    /\ out' = PatientsOut(s, tenant_id, reply)
    /\ last' = Step("patients:subscribe", s, None)
    /\ UNCHANGED <<sockets, connected_clients, ncConnected, pending, resolved>>

AddFailure(s, error) ==
    [Ev("patients:add:response", {s}) EXCEPT !.success = "false", !.error = error]

\* A handle_add_patient whose broadcast leaves out the sender.
AddPatientOutSkipsSender(s, tenant_id, reply) ==
    IF NotAuthenticated(s) THEN << NotAuthenticatedError(s) >>
    ELSE IF ~HasUser(s) THEN << AddFailure(s, "Failed to add patient") >>
    ELSE IF ~ncConnected THEN << >>
    ELSE IF reply = "timeout" THEN << AddFailure(s, "Failed to add patient") >>
    ELSE IF reply = "created"
    THEN << [Ev("patients:new", MembersOf(PatientsRoom(tenant_id)) \ {s})
               EXCEPT !.tenant = tenant_id],
            [Ev("patients:add:response", {s})
               EXCEPT !.success = "true", !.tenant = tenant_id] >>
    ELSE << AddFailure(s, "Failed to add patient") >>

\* The emits of handle_add_patient; tenant_id is data['tenantId'].
AddPatientOut(s, tenant_id, reply) ==
    IF NotAuthenticated(s) THEN << NotAuthenticatedError(s) >>
    ELSE IF ~HasUser(s) THEN << AddFailure(s, "Failed to add patient") >>
    ELSE IF ~ncConnected THEN << >>
    ELSE IF reply = "timeout" THEN << AddFailure(s, "Failed to add patient") >>
    ELSE IF reply = "created"
    THEN << [Ev("patients:new", MembersOf(PatientsRoom(tenant_id)))
               EXCEPT !.tenant = tenant_id],
            [Ev("patients:add:response", {s})
               EXCEPT !.success = "true", !.tenant = tenant_id] >>
    ELSE << AddFailure(s, "Failed to add patient") >>

\* @socketio.on('patients:add')
HandleAddPatient(s, tenant_id, reply) ==
    /\ sockets[s] = "open"
    /\ Tick
    /\ UNCHANGED writing
    /\ out' = AddPatientOut(s, tenant_id, reply)
    /\ last' = Step("patients:add", s, None)
    /\ UNCHANGED <<sockets, connected_clients, rooms, ncConnected, pending, resolved>>

----------------------------------------------------------------------------
\* The messages the bus can deliver on customer.auth.response.*; a field the
\* message lacks reads as None (data.get).
\* A success carries a user and a token, or lacks both.
AuthMsgs ==
    {m \in [clientId : Sids \cup {None}, success : BOOLEAN, user : UserIds \cup {None},
            token : Tokens \cup {None}, requestId : RequestIds \cup {None}] :
        /\ (m.user = None) <=> (m.token = None)
        /\ ~m.success => m.user = None}

\* A callback that writes the entry without "if client_id in connected_clients".
AuthResponseClientsUnguarded(msg) ==
    IF msg.success /\ msg.clientId \in Sids
    THEN [x \in DOMAIN connected_clients \cup {msg.clientId} |->
            IF x = msg.clientId
            THEN [NewClient EXCEPT !.authenticated = TRUE, !.user = msg.user,
                                   !.token = msg.token]
            ELSE connected_clients[x]]
    ELSE connected_clients

\* A callback whose failure branch clears the authenticated flag.
AuthResponseClientsResets(msg) ==
    IF msg.clientId \notin DOMAIN connected_clients THEN connected_clients
    ELSE IF msg.success
    THEN Authenticate(connected_clients, msg.clientId, msg.user, msg.token)
    ELSE [connected_clients EXCEPT ![msg.clientId].authenticated = FALSE]

\* The registry after handle_auth_response.
AuthResponseClients(msg) ==
    IF msg.success /\ msg.clientId \in DOMAIN connected_clients
    THEN Authenticate(connected_clients, msg.clientId, msg.user, msg.token)
    ELSE connected_clients

\* The emit of handle_auth_response.
AuthResponseOut(msg) ==
    IF msg.success
    THEN << LoginSuccess(ToSid(msg.clientId), msg.user, msg.token) >>
    ELSE << [Ev("auth:login:response", ToSid(msg.clientId))
               EXCEPT !.success = "false", !.error = "Authentication failed"] >>

\* async def handle_auth_response(msg)
HandleAuthResponse(msg) ==
    /\ ncConnected
    /\ Tick
    /\ UNCHANGED writing
    /\ connected_clients' = AuthResponseClients(msg)
    /\ out' = AuthResponseOut(msg)
    /\ last' = Step("auth_response", msg.clientId, msg.requestId)
    /\ pending' = pending \ Answers("auth", msg.clientId, msg.requestId)
    /\ resolved' = resolved \cup {p.rid : p \in Answers("auth", msg.clientId, msg.requestId)}
    /\ UNCHANGED <<sockets, rooms, ncConnected>>

\* handle_auth_response statement by statement.  The handlers of the Socket.IO
\* events run in the server's threads (async_mode='threading') and nothing locks
\* connected_clients, so a handler can run between two statements of the
\* callback.  The callbacks themselves run one at a time on the event loop.
\* Lines 479-487: the message is parsed and "client_id in connected_clients" is
\* tested.
AuthResponseReceive(msg) ==
    /\ ncConnected
    /\ writing = {}
    /\ Tick
    /\ writing' = {[msg |-> msg,
                    pc |-> IF msg.success /\ msg.clientId \in DOMAIN connected_clients
                           THEN "authenticated" ELSE "emit"]}
    /\ out' = << >>
    /\ last' = Step("auth_response:receive", msg.clientId, msg.requestId)
    /\ UNCHANGED <<sockets, connected_clients, rooms, ncConnected, pending, resolved>>

\* The registry after the assignment at w.pc (lines 488, 489, 490).
AuthResponseAssign(w) ==
    IF w.pc = "authenticated"
    THEN [connected_clients EXCEPT ![w.msg.clientId].authenticated = TRUE]
    ELSE IF w.pc = "user"
    THEN [connected_clients EXCEPT ![w.msg.clientId].user = w.msg.user]
    ELSE [connected_clients EXCEPT ![w.msg.clientId].token = w.msg.token]

\* Assignments that put the entry back when it has been deleted meanwhile
\* (connected_clients.setdefault(client_id, {})[...] = ...).
AuthResponseWriteRecreates ==
    /\ \E w \in writing :
          /\ w.pc \in {"authenticated", "user", "token"}
          /\ connected_clients' =
                IF w.msg.clientId \in DOMAIN connected_clients
                THEN AuthResponseAssign(w)
                ELSE [x \in DOMAIN connected_clients \cup {w.msg.clientId} |->
                        IF x = w.msg.clientId
                        THEN [NewClient EXCEPT !.authenticated = TRUE]
                        ELSE connected_clients[x]]
          /\ writing' = {[w EXCEPT !.pc = IF w.pc = "authenticated" THEN "user"
                                          ELSE IF w.pc = "user" THEN "token"
                                          ELSE "emit"]}
          /\ last' = Step("auth_response:write", w.msg.clientId, w.msg.requestId)
    /\ Tick
    /\ out' = << >>
    /\ UNCHANGED <<sockets, rooms, ncConnected, pending, resolved>>

\* One of the three assignments; connected_clients[client_id] raises KeyError
\* when the entry has been deleted meanwhile, and the except clause (504-505)
\* ends the callback without an emit.
AuthResponseWrite ==
    /\ \E w \in writing :
          /\ w.pc \in {"authenticated", "user", "token"}
          /\ IF w.msg.clientId \in DOMAIN connected_clients
             THEN /\ connected_clients' = AuthResponseAssign(w)
                  /\ writing' = {[w EXCEPT !.pc = IF w.pc = "authenticated" THEN "user"
                                                  ELSE IF w.pc = "user" THEN "token"
                                                  ELSE "emit"]}
                  /\ last' = Step("auth_response:write", w.msg.clientId, w.msg.requestId)
             ELSE /\ connected_clients' = connected_clients
                  /\ writing' = {}
                  /\ last' = Step("auth_response:except", w.msg.clientId, w.msg.requestId)
    /\ Tick
    /\ out' = << >>
    /\ UNCHANGED <<sockets, rooms, ncConnected, pending, resolved>>

\* Lines 493-502: the response is emitted and the callback returns.
AuthResponseEmit ==
    /\ \E w \in writing :
          /\ w.pc = "emit"
          /\ out' = AuthResponseOut(w.msg)
          /\ last' = Step("auth_response", w.msg.clientId, w.msg.requestId)
          /\ pending' = pending \ Answers("auth", w.msg.clientId, w.msg.requestId)
          /\ resolved' = resolved \cup
                {p.rid : p \in Answers("auth", w.msg.clientId, w.msg.requestId)}
    /\ Tick
    /\ writing' = {}
    /\ UNCHANGED <<sockets, connected_clients, rooms, ncConnected>>

\* async def handle_tenant_response(msg); client_id is data.get('clientId').
HandleTenantResponse(client_id) ==
    /\ ncConnected
    /\ Tick
    /\ UNCHANGED writing
    /\ out' = << Ev("user:tenants:list:response", ToSid(client_id)) >>
    /\ last' = Step("tenant_response", client_id, None)
    /\ pending' = pending \ Answers("tenants", client_id, None)
    /\ UNCHANGED <<sockets, connected_clients, rooms, ncConnected, resolved>>

PatientMsgs ==
    [responseType : {"list", "created"}, tenantId : TenantIds,
     clientId : Sids \cup {None}, requestId : RequestIds]

\* The emits of handle_patient_response.
PatientResponseOut(msg) ==
    IF msg.responseType = "list"
    THEN << [Ev("patients:list", MembersOf(PatientsRoom(msg.tenantId)))
               EXCEPT !.tenant = msg.tenantId] >>
    ELSE << [Ev("patients:add:response:" \o msg.requestId, ToSid(msg.clientId))
               EXCEPT !.success = "true", !.tenant = msg.tenantId],
            [Ev("patients:new", MembersOf(PatientsRoom(msg.tenantId)))
               EXCEPT !.tenant = msg.tenantId] >>

\* async def handle_patient_response(msg)
HandlePatientResponse(msg) ==
    /\ ncConnected
    /\ Tick
    /\ UNCHANGED writing
    /\ out' = PatientResponseOut(msg)
    /\ last' = Step("patient_response:" \o msg.responseType, msg.clientId, msg.requestId)
    /\ UNCHANGED <<sockets, connected_clients, rooms, ncConnected, pending, resolved>>

\* A handle_dashboard_update whose emit names no room.
HandleDashboardUpdateToAll(tenant_id, update_type) ==
    /\ ncConnected
    /\ Tick
    /\ UNCHANGED writing
    /\ out' = << [Ev(IF update_type = "stats" THEN "dashboard:stats:update"
                                               ELSE "dashboard:activity:new",
                      ToSid(None))
                    EXCEPT !.tenant = tenant_id] >>
    /\ last' = Step("dashboard_update", None, None)
    /\ UNCHANGED <<sockets, connected_clients, rooms, ncConnected, pending, resolved>>

\* async def handle_dashboard_update(msg)
HandleDashboardUpdate(tenant_id, update_type) ==
    /\ ncConnected
    /\ Tick
    /\ UNCHANGED writing
    /\ out' = << [Ev(IF update_type = "stats" THEN "dashboard:stats:update"
                                               ELSE "dashboard:activity:new",
                      MembersOf(DashboardRoom(tenant_id)))
                    EXCEPT !.tenant = tenant_id] >>
    /\ last' = Step("dashboard_update", None, None)
    /\ UNCHANGED <<sockets, connected_clients, rooms, ncConnected, pending, resolved>>

\* The bus connection drops (nc.is_connected turns false) and comes back.
NatsDisconnected ==
    /\ ncConnected
    /\ Tick
    /\ UNCHANGED writing
    /\ ncConnected' = FALSE
    /\ out' = << >>
    /\ last' = Step("nats_down", None, None)
    /\ UNCHANGED <<sockets, connected_clients, rooms, pending, resolved>>

NatsReconnected ==
    /\ ~ncConnected
    /\ Tick
    /\ UNCHANGED writing
    /\ ncConnected' = TRUE
    /\ out' = << >>
    /\ last' = Step("nats_up", None, None)
    /\ UNCHANGED <<sockets, connected_clients, rooms, pending, resolved>>

Next ==
    \/ \E s \in Sids : HandleConnect(s)
    \/ \E s \in Sids : HandleDisconnect(s)
    \/ \E s \in Sids : HandleDisconnectAbsent(s)
    \/ \E s \in Sids, data \in LoginData : HandleLogin(s, data)
    \/ \E s \in Sids : HandleListTenants(s)
    \/ \E s \in Sids, t \in TenantIds, r \in VerifyReplies : HandleSelectTenant(s, t, r)
    \/ \E s \in Sids, t \in TenantIds, r1, r2 \in SnapshotReplies :
          HandleDashboardSubscribe(s, t, r1, r2)
    \/ \E s \in Sids, t \in TenantIds, r \in SnapshotReplies :
          HandlePatientsSubscribe(s, t, r)
    \/ \E s \in Sids, t \in TenantIds, r \in CreateReplies : HandleAddPatient(s, t, r)
    \/ \E msg \in AuthMsgs : HandleAuthResponse(msg)
    \/ \E c \in Sids \cup {None} : HandleTenantResponse(c)
    \/ \E msg \in PatientMsgs : HandlePatientResponse(msg)
    \/ \E t \in TenantIds, u \in {"stats", "activity"} : HandleDashboardUpdate(t, u)
    \/ NatsDisconnected
    \/ NatsReconnected

Spec == Init /\ [][Next]_vars

\* The same program with handle_auth_response run statement by statement.
NextSteps ==
    \/ \E s \in Sids : HandleConnect(s)
    \/ \E s \in Sids : HandleDisconnect(s)
    \/ \E s \in Sids, data \in LoginData : HandleLogin(s, data)
    \/ \E s \in Sids : HandleListTenants(s)
    \/ \E s \in Sids, t \in TenantIds, r \in VerifyReplies : HandleSelectTenant(s, t, r)
    \/ \E s \in Sids, t \in TenantIds, r1, r2 \in SnapshotReplies :
          HandleDashboardSubscribe(s, t, r1, r2)
    \/ \E s \in Sids, t \in TenantIds, r \in SnapshotReplies :
          HandlePatientsSubscribe(s, t, r)
    \/ \E s \in Sids, t \in TenantIds, r \in CreateReplies : HandleAddPatient(s, t, r)
    \/ \E s \in Sids, data \in LoginData : HandleLoginAfterDisconnect(s, data)
    \/ \E msg \in AuthMsgs : AuthResponseReceive(msg)
    \/ AuthResponseWrite
    \/ AuthResponseEmit
    \/ \E c \in Sids \cup {None} : writing = {} /\ HandleTenantResponse(c)
    \/ \E msg \in PatientMsgs : writing = {} /\ HandlePatientResponse(msg)
    \/ \E t \in TenantIds, u \in {"stats", "activity"} :
          writing = {} /\ HandleDashboardUpdate(t, u)
    \/ NatsDisconnected
    \/ NatsReconnected

SpecSteps == Init /\ [][NextSteps]_vars

----------------------------------------------------------------------------
\* Properties.

\* The positions of the emits of the last step that were delivered to c.
DeliveredTo(c) == {i \in 1..Len(out) : c \in out[i].to}

\* C1: a registered connection is a member of the room user:{id of its user}
\* exactly when it is authenticated (stated for the connections whose stored
\* user has an id): authenticated implies membership, and an unauthenticated
\* connection is in no user: room.
C1_UserRoomIffAuthenticated ==
    \A c \in DOMAIN connected_clients :
        /\ (connected_clients[c].authenticated /\ connected_clients[c].user \in UserIds)
              => UserRoom(connected_clients[c].user) \in rooms[c]
        /\ ~connected_clients[c].authenticated
              => \A u \in UserIds : UserRoom(u) \notin rooms[c]

\* C2: a connection is a member of the tenant-selection room tenant:T of at most
\* one tenant T: a successful selection has left the room of the tenant selected
\* before.
C2_AtMostOneTenantRoom ==
    \A c \in Sids : Cardinality({t \in TenantIds : TenantRoom(t) \in rooms[c]}) <= 1

\* C3: a connection is a member of dashboard:T or patients:T only if its active
\* tenant is T.
C3_SubscribedOnlyToActiveTenant ==
    \A c \in Sids : \A t \in TenantIds :
        (DashboardRoom(t) \in rooms[c] \/ PatientsRoom(t) \in rooms[c])
            => (c \in DOMAIN connected_clients /\ connected_clients[c].tenant_id = t)

\* C4: a patients:add from a connection that has selected no tenant is answered
\* with an error to that connection (an error event or a failed
\* patients:add:response), never with patients:add:response success:true and
\* never with a patients:new broadcast.
C4_AddPatientNeedsTenant ==
    (/\ last.op = "patients:add"
     /\ last.sid \in DOMAIN connected_clients
     /\ connected_clients[last.sid].tenant_id = Absent)
    => /\ \E i \in DeliveredTo(last.sid) :
            out[i].ev = "error" \/ out[i].success = "false"
       /\ \A i \in 1..Len(out) :
            /\ out[i].ev # "patients:new"
            /\ ~(out[i].ev = "patients:add:response" /\ out[i].success = "true")

\* The bus callbacks that answer a client request, and the request kind each answers.
IsReply(step) == step.op \in {"auth_response", "tenant_response", "patient_response:created"}

ReplyKind(step) ==
    IF step.op = "auth_response" THEN "auth"
    ELSE IF step.op = "tenant_response" THEN "tenants" ELSE "patients"

\* C5: a reply event (auth:login:response, user:tenants:list:response,
\* patients:add:response) that a bus callback delivers to connection c answers
\* a request of that kind and id that c issued and that is still outstanding.
C5_ReplyOnlyToRequester ==
    [][(IsReply(last') /\ last'.sid \in Sids) =>
         \A c \in out'[1].to : Outstanding(c, ReplyKind(last'), last'.rid)]_vars

\* C6: a request id is resolved by at most one reply: a second bus reply bearing
\* a request id that an earlier reply has already resolved delivers no response
\* event and changes no connection's state.
C6_ResolvedReplyDropped ==
    [][(IsReply(last') /\ last'.sid \in Sids /\ last'.rid \in resolved)
         => (out'[1].to = {} /\ connected_clients' = connected_clients)]_vars

\* C7: a connection that has disconnected is absent from the registry and from
\* every room, in every later state.
C7_DisconnectedStaysAbsent ==
    \A c \in Sids :
        sockets[c] = "closed" => (c \notin DOMAIN connected_clients /\ rooms[c] = {})

\* C7 witness: a successful bus auth reply naming a connection that registered
\* and then disconnected has been processed.
C7_Witness ==
    \E c \in Sids :
        /\ sockets[c] = "closed"
        /\ last.op = "auth_response" /\ last.sid = c
        /\ out[1].success = "true"

C9_FailureDeliveredOnce ==
    [][/\ \A s \in Sids, t \in TenantIds :
            (HandleSelectTenant(s, t, "timeout") /\ ~NotAuthenticated(s) /\ ncConnected)
               => (Len(out') = 1 /\ out'[1].to = {s} /\ out'[1].success = "false")
       /\ last'.op = "auth:login"
            => (Len(out') = 1 /\ out'[1].to = {last'.sid} /\ out'[1].success = "false")
       /\ (/\ last.op = "auth:login"
           /\ last'.op = "auth_response"
           /\ last'.sid = last.sid
           /\ last'.rid = last.rid)
            => (last.sid \notin out'[1].to /\ connected_clients' = connected_clients)]_vars

ClientRequests ==
    {"user:tenants:list", "user:tenant:select", "dashboard:subscribe",
     "patients:subscribe", "patients:add"}

\* C10: every client request from an authenticated connection is answered with
\* at least one event delivered to that connection, also when the bus is down.
C10_EveryRequestAnswered ==
    (/\ last.op \in ClientRequests
     /\ last.sid \in DOMAIN connected_clients
     /\ connected_clients[last.sid].authenticated)
    => DeliveredTo(last.sid) # {}

\* C11: when the bus reports that the credentials of a login by connection c
\* are verified (a success reply naming c that answers c's outstanding login),
\* c is authenticated with that user and token stored, and exactly one
\* auth:login:response with success:true, carrying that user and token, is
\* emitted, to c alone.
C11_VerifiedLoginAuthenticates ==
    [][(/\ last'.op = "auth_response"
        /\ Len(out') > 0
        /\ out'[1].success = "true"
        /\ last'.sid \in DOMAIN connected_clients
        /\ Outstanding(last'.sid, "auth", last'.rid))
       => /\ connected_clients'[last'.sid].authenticated
          /\ connected_clients'[last'.sid].user = out'[1].user
          /\ connected_clients'[last'.sid].token = out'[1].token
          /\ Len(out') = 1
          /\ out'[1].ev = "auth:login:response"
          /\ out'[1].to = {last'.sid}]_vars

\* C11 witness: a success reply has resolved the login of a connection, which is
\* now authenticated as the verified user.
C11_Witness ==
    /\ last.op = "auth_response"
    /\ last.rid \in resolved
    /\ last.sid \in DOMAIN connected_clients
    /\ connected_clients[last.sid].authenticated
    /\ connected_clients[last.sid].user \in UserIds
    /\ connected_clients[last.sid].token \in Tokens
    /\ out[1].success = "true" /\ out[1].to = {last.sid}

\* C12: a login step that ends with an auth:login:response carrying
\* success:false (from handle_login itself, or from the failure reply of the
\* bus) leaves the registry and every room membership as they were; a
\* connection that was unauthenticated with no user, no token and no room is
\* still so afterwards.
C12_FailedLoginChangesNothing ==
    [][(/\ last'.op \in {"auth:login", "auth_response"}
        /\ \E i \in 1..Len(out') :
              out'[i].ev = "auth:login:response" /\ out'[i].success = "false")
       => /\ connected_clients' = connected_clients
          /\ rooms' = rooms]_vars

\* C12 witness: a login has just been answered with success:false and the
\* connection is registered, unauthenticated, without user, token or room.
C12_Witness ==
    /\ last.op = "auth:login"
    /\ Len(out) = 1 /\ out[1].success = "false" /\ out[1].to = {last.sid}
    /\ last.sid \in DOMAIN connected_clients
    /\ connected_clients[last.sid] = NewClient
    /\ rooms[last.sid] = {}

\* C13: auth:login is accepted only from an unauthenticated connection: a login
\* by a connection that is already authenticated, and the reply of the bus to
\* that login, leave its stored user and token as they are, and no connection
\* is ever in two different user: rooms.
C13_LoginOnlyWhenUnauthenticated ==
    [][/\ (/\ last'.op \in {"auth:login", "auth_response"}
           /\ last'.sid \in DOMAIN connected_clients
           /\ connected_clients[last'.sid].authenticated
           /\ connected_clients[last'.sid].user \in UserIds
           /\ \/ last'.op = "auth:login"
              \/ \E p \in Answers("auth", last'.sid, last'.rid) :
                    p.sid = last'.sid /\ p.authenticated)
          => /\ last'.sid \in DOMAIN connected_clients'
             /\ connected_clients'[last'.sid].user = connected_clients[last'.sid].user
             /\ connected_clients'[last'.sid].token = connected_clients[last'.sid].token
       /\ \A s \in Sids : \A u1, u2 \in UserIds :
             (UserRoom(u1) \in rooms'[s] /\ UserRoom(u2) \in rooms'[s]) => u1 = u2]_vars

\* C14: when a connection that is unregistered or not authenticated sends
\* user:tenants:list, user:tenant:select, dashboard:subscribe, patients:subscribe
\* or patients:add, exactly one error event with message "Not authenticated" is
\* emitted, to that connection alone; nothing is handed to the bus, no room is
\* joined, the registry is unchanged and the connection stays open.
C14_NotAuthenticatedRejected ==
    [][(last'.op \in ClientRequests /\ NotAuthenticated(last'.sid))
       => /\ out' = << NotAuthenticatedError(last'.sid) >>
          /\ pending' = pending
          /\ rooms' = rooms
          /\ connected_clients' = connected_clients
          /\ sockets' = sockets]_vars

\* C14 witness: an unauthenticated, registered connection has just been refused
\* a patients:add.
C14_Witness ==
    /\ last.op = "patients:add"
    /\ last.sid \in DOMAIN connected_clients
    /\ ~connected_clients[last.sid].authenticated
    /\ sockets[last.sid] = "open"
    /\ out = << NotAuthenticatedError(last.sid) >>

\* C15: when the access verification of a user:tenant:select is denied, or
\* fails (the request to the bus times out or raises), the connection gets one
\* user:tenant:select:response with success:false and its state is as before:
\* same active tenant, same rooms, no tenant: room of the requested tenant joined.
C15_DeniedSelectChangesNothing ==
    [][\A s \in Sids, tenant_id \in TenantIds, reply \in {"denied", "timeout"} :
          (/\ last'.op = "user:tenant:select"
           /\ last'.sid = s
           /\ ~NotAuthenticated(s)
           /\ ncConnected
           /\ HandleSelectTenant(s, tenant_id, reply))
          => /\ Len(out') = 1
             /\ out'[1].ev = "user:tenant:select:response"
             /\ out'[1].success = "false"
             /\ out'[1].to = {s}
             /\ connected_clients' = connected_clients
             /\ rooms' = rooms]_vars

\* C15 witness: a connection with an active tenant has just been denied another
\* selection; it keeps its tenant and is in the tenant: room of that one only.
C15_Witness ==
    /\ last.op = "user:tenant:select"
    /\ Len(out) = 1 /\ out[1].error = "Access denied to this tenant"
    /\ last.sid \in DOMAIN connected_clients
    /\ connected_clients[last.sid].tenant_id \in TenantIds
    /\ \A t \in TenantIds :
          TenantRoom(t) \in rooms[last.sid] <=> t = connected_clients[last.sid].tenant_id

\* C16: a successful patients:add for tenant T by connection A delivers
\* patients:new for the created record to every open connection subscribed to
\* patients:T (so to A and B when both are subscribed), and delivers
\* patients:add:response with success:true to A and to nobody else.
C16_AddPatientFanOut ==
    (last.op = "patients:add" /\ \E i \in 1..Len(out) : out[i].success = "true")
    => /\ Len(out) = 2
       /\ out[1].ev = "patients:new"
       /\ out[1].tenant = out[2].tenant
       /\ \A c \in Sids :
             (sockets[c] = "open" /\ PatientsRoom(out[2].tenant) \in rooms[c])
             => c \in out[1].to
       /\ out[2].ev = "patients:add:response"
       /\ out[2].success = "true"
       /\ out[2].to = {last.sid}

\* C16 witness: A and B are both subscribed to patients:T, A's patients:add for T
\* has succeeded, both got patients:new and only A got the response.
C16_Witness ==
    /\ last.op = "patients:add"
    /\ Len(out) = 2
    /\ out[2].success = "true"
    /\ \E b \in Sids \ {last.sid} :
          /\ PatientsRoom(out[2].tenant) \in rooms[b]
          /\ PatientsRoom(out[2].tenant) \in rooms[last.sid]
          /\ {last.sid, b} \subseteq out[1].to
          /\ b \notin out[2].to

\* The emit at position i of the last step is a broadcast to a room.
IsRoomBroadcast(i) ==
    \/ out[i].ev \in {"dashboard:stats:update", "dashboard:activity:new", "patients:new"}
    \/ out[i].ev = "patients:list" /\ last.op = "patient_response:list"

\* The room a broadcast event of a tenant goes to.
BroadcastRoom(e) ==
    IF e.ev \in {"dashboard:stats:update", "dashboard:activity:new"}
    THEN DashboardRoom(e.tenant) ELSE PatientsRoom(e.tenant)

\* C17: whatever joins and disconnects came before, a broadcast to a room
\* (dashboard:T or patients:T) is delivered to exactly the connections joined to
\* that room at that moment: every member that is still connected gets it and
\* no connection outside the room does.
C17_BroadcastReachesExactlyMembers ==
    \A i \in 1..Len(out) :
        IsRoomBroadcast(i)
        => out[i].to = {c \in Sids : /\ sockets[c] = "open"
                                     /\ BroadcastRoom(out[i]) \in rooms[c]}

\* C17 witness: a dashboard update has reached a member of dashboard:T while
\* another open connection, joined to some other room, did not get it.
C17_Witness ==
    /\ last.op = "dashboard_update"
    /\ out[1].to # {}
    /\ \E c \in Sids \ out[1].to : sockets[c] = "open" /\ rooms[c] # {}

\* C18: removing a connection is idempotent: handle_disconnect run for an id that
\* is absent from the registry (a second disconnect, or a disconnect for an id
\* that never connected) leaves the registry and every room as they were.
C18_DisconnectIdempotent ==
    [][(last'.op = "disconnect" /\ last'.sid \notin DOMAIN connected_clients)
       => /\ connected_clients' = connected_clients
          /\ rooms' = rooms]_vars

\* C18 witness: handle_disconnect has just run for an id that never connected,
\* while another connection is registered and joined to a room.
C18_Witness ==
    /\ last.op = "disconnect"
    /\ sockets[last.sid] = "fresh"
    /\ \E c \in DOMAIN connected_clients : rooms[c] # {}

\* C19: with no live bus, a login with email demo@htpi.com and password demo123
\* is answered with a success response whose user is user-001, and a login with
\* any other credential pair is answered with a failure response whose error is
\* "Invalid credentials".
C19_MockLogin ==
    [][\A s \in Sids, data \in LoginData :
          (/\ last'.op = "auth:login"
           /\ last'.sid = s
           /\ ~ncConnected
           /\ HandleLogin(s, data))
          => /\ Len(out') = 1
             /\ out'[1].ev = "auth:login:response"
             /\ out'[1].to = {s}
             /\ IF data.email = "demo@htpi.com" /\ data.password = "demo123"
                THEN out'[1].success = "true" /\ out'[1].user = "user-001"
                ELSE out'[1].success = "false" /\ out'[1].error = "Invalid credentials"]_vars

\* C20: updates of a connection's record are atomic for the handlers and
\* callbacks that run at the same time: no handler of a client event ever runs
\* for a connection whose registry entry has authenticated = true while its
\* user or its token is not set yet.
C20_NoPartialEntryObserved ==
    (/\ last.op \in ClientRequests
     /\ last.sid \in DOMAIN connected_clients
     /\ connected_clients[last.sid].authenticated)
    => /\ connected_clients[last.sid].user # Absent
       /\ connected_clients[last.sid].token # Absent

\* C21: however handle_disconnect for connection c interleaves with a login or
\* a bus auth response being processed for c, once both have finished c is
\* absent from the registry: the racing handler or reply neither re-creates nor
\* leaves behind an entry for c, and the KeyError of a write that comes after
\* the delete ends inside the callback, which emits nothing and is over.
C21_DisconnectRaceLeavesAbsent ==
    /\ \A c \in Sids :
          (sockets[c] = "closed" /\ \A w \in writing : w.msg.clientId # c)
          => c \notin DOMAIN connected_clients
    /\ last.op = "auth_response:except" => (writing = {} /\ out = << >>)

\* C21 witness: the callback found c registered, c disconnected before one of
\* the three assignments ran, the assignment raised and the callback is over.
C21_Witness ==
    /\ last.op = "auth_response:except"
    /\ last.sid \in Sids
    /\ sockets[last.sid] = "closed"
    /\ writing = {}

\* C22: authentication is monotonic for the life of a connection: a connection
\* whose authenticated flag is true is, after any step other than its own
\* disconnect, still registered with the flag true; a failed login, a failed
\* bus auth response and a denied tenant selection do not reset it.
C22_AuthenticationMonotonic ==
    [][\A c \in DOMAIN connected_clients :
          connected_clients[c].authenticated
          => \/ c \in DOMAIN connected_clients' /\ connected_clients'[c].authenticated
             \/ last'.op = "disconnect" /\ last'.sid = c]_vars

\* C22 witness: a failure reply of the bus for an authenticated connection has
\* been processed and the connection is still authenticated.
C22_Witness ==
    /\ last.op = "auth_response"
    /\ Len(out) = 1 /\ out[1].success = "false"
    /\ last.sid \in DOMAIN connected_clients
    /\ connected_clients[last.sid].authenticated

====
